---- MODULE Spec2Model ----
(***************************************************************************)
(* Model of src/math/ray.rs: the ray, the intersection interval            *)
(* (IntersectionResult) and the analytic ray/primitive intersection        *)
(* routines.                                                               *)
(*                                                                         *)
(* Numbers.  An f32 is modelled by its IEEE-754 binary32 bit pattern:      *)
(* sign, biased exponent and fraction.  Every arithmetic operation rounds  *)
(* its exact result to the nearest f32, ties to even, with overflow to an  *)
(* infinity, gradual underflow, signed zeros and NaN; every comparison     *)
(* with NaN is false.                                                      *)
(***************************************************************************)
EXTENDS Integers, Sequences, FiniteSets, TLC

VARIABLES ray, res, call

vars == <<ray, res, call>>

(***************************************************************************)
(* f32 values                                                              *)
(***************************************************************************)
Abs(i) == IF i < 0 THEN -i ELSE i

\* an f32 by the fields of its bit pattern: sign bit s, biased exponent e
\* (8 bits) and fraction m (23 bits)
Bits(s, e, m) == [s |-> s, e |-> e, m |-> m]

\* the implicit leading bit of a normal significand
Hidden == 2^23

NaN == Bits(0, 255, 2^22)
PInf == Bits(0, 255, 0)
NInf == Bits(1, 255, 0)
PZero == Bits(0, 0, 0)
NZero == Bits(1, 0, 0)

\* std::f32::MAX, bit pattern 7f7fffff
FMaxV == Bits(0, 254, Hidden - 1)

IsNaN(a) == a.e = 255 /\ a.m # 0
IsInf(a) == a.e = 255 /\ a.m = 0
IsZero(a) == a.e = 0 /\ a.m = 0
IsFinite(a) == a.e # 255

\* the sign bit: -1 for negative values, -0 and -infinity, else 1
Sgn(a) == IF a.s = 1 THEN -1 ELSE 1

SignBit(s) == IF s < 0 THEN 1 ELSE 0

Inf(s) == IF s < 0 THEN NInf ELSE PInf

Zero(s) == IF s < 0 THEN NZero ELSE PZero

\* a finite value is Sig * 2^Exp
Sig(a) == IF a.e = 0 THEN a.m ELSE Hidden + a.m

Exp(a) == IF a.e = 0 THEN -149 ELSE a.e - 150

\* the magnitude as an integer that orders like the value
Key(a) == a.e * Hidden + a.m

RECURSIVE BitLen(_)
BitLen(M) ==
    IF M = 0 THEN 0
    ELSE IF M >= 65536 THEN 16 + BitLen(M \div 65536)
    ELSE IF M >= 256 THEN 8 + BitLen(M \div 256)
    ELSE IF M >= 16 THEN 4 + BitLen(M \div 16)
    ELSE 1 + BitLen(M \div 2)

\* the f32 of significand q < 2^24 at exponent E >= -149 (q < 2^23 only for
\* a subnormal, at E = -149); overflow gives an infinity
Pack(s, q, E) ==
    IF q < Hidden THEN Bits(SignBit(s), 0, q)
    ELSE IF E > 104 THEN Inf(s)
    ELSE Bits(SignBit(s), E + 150, q - Hidden)

\* round to nearest, ties to even: the f32 nearest to s * (M + f) * 2^E,
\* where 0 < f < 1 if sticky and f = 0 otherwise
RoundUp(s, E1, q, up) ==
    IF ~up THEN Pack(s, q, E1)
    ELSE IF q + 1 = 2 * Hidden THEN Pack(s, Hidden, E1 + 1)
    ELSE Pack(s, q + 1, E1)

\* q2 holds the kept bits and the first dropped bit, rest says whether a
\* lower dropped bit is set
RoundHalf(s, E1, q2, rest) ==
    RoundUp(s, E1, q2 \div 2, q2 % 2 = 1 /\ (rest \/ (q2 \div 2) % 2 = 1))

\* h is the weight of the first dropped bit
RoundCut(s, M, sticky, E1, h) == RoundHalf(s, E1, M \div h, M % h # 0 \/ sticky)

\* E1 is the exponent of the result: the bits of M below it are dropped
RoundAt(s, M, E, sticky, L, E1) ==
    IF E1 <= E THEN Pack(s, M * 2^(E - E1), E1)
    ELSE IF E1 - E > L THEN Zero(s)
    ELSE RoundCut(s, M, sticky, E1, 2^(E1 - E - 1))

\* L is the number of bits of M
RoundLen(s, M, E, sticky, L) ==
    RoundAt(s, M, E, sticky, L, IF E + L - 24 < -149 THEN -149 ELSE E + L - 24)

Round(s, M, E, sticky) ==
    IF M = 0 THEN Zero(s) ELSE RoundLen(s, M, E, sticky, BitLen(M))

\* `i as f32`
F(i) == Round(i, Abs(i), 0, FALSE)

FNeg(a) == IF IsNaN(a) THEN NaN ELSE Bits(1 - a.s, a.e, a.m)

\* A and B are the significands aligned at the exponent of big, with six
\* guard bits; st says whether bits of small were shifted out
AddSigs(big, small, A, B, st) ==
    IF big.s = small.s THEN Round(Sgn(big), A + B, Exp(big) - 6, st)
    ELSE IF A = B /\ ~st THEN PZero
    ELSE Round(Sgn(big), A - B - (IF st THEN 1 ELSE 0), Exp(big) - 6, st)

AddAligned(big, small, d, Bs) ==
    AddSigs(big, small, Sig(big) * 64,
            IF d > 30 THEN 0 ELSE Bs \div 2^d,
            IF d > 30 THEN Bs # 0 ELSE Bs % 2^d # 0)

\* the sum of two finite values, big the one of larger magnitude
AddFinite(big, small) == AddAligned(big, small, Exp(big) - Exp(small), Sig(small) * 64)

FAdd(a, b) ==
    IF IsNaN(a) \/ IsNaN(b) THEN NaN
    ELSE IF IsInf(a) /\ IsInf(b) THEN (IF a.s = b.s THEN a ELSE NaN)
    ELSE IF IsInf(a) THEN a
    ELSE IF IsInf(b) THEN b
    ELSE IF IsZero(a) /\ IsZero(b) THEN Zero(IF a.s = 1 /\ b.s = 1 THEN -1 ELSE 1)
    ELSE IF Key(a) >= Key(b) THEN AddFinite(a, b) ELSE AddFinite(b, a)

FSub(a, b) == FAdd(a, FNeg(b))

\* the product of two significands as H * 2^24 + L, rounded
MulDrop(s, E, H, L, drop) ==
    IF drop <= 0 THEN Round(s, H * 2 * Hidden + L, E, FALSE)
    ELSE Round(s, H * 2^(24 - drop) + L \div 2^drop, E + drop, L % 2^drop # 0)

MulHigh(s, E, H, L) == MulDrop(s, E, H, L, BitLen(H) - 6)

MulLow(s, E, h0, t) == MulHigh(s, E, h0 + t \div (2 * Hidden), t % (2 * Hidden))

MulMid(s, E, hh, ll, mid) == MulLow(s, E, hh + mid \div 4096, (mid % 4096) * 4096 + ll)

MulParts(s, E, ah, al, bh, bl) == MulMid(s, E, ah * bh, al * bl, ah * bl + al * bh)

\* the product A * B of two significands, by halves of 12 bits
MulFinite(s, A, B, E) == MulParts(s, E, A \div 4096, A % 4096, B \div 4096, B % 4096)

FMul(a, b) ==
    IF IsNaN(a) \/ IsNaN(b) THEN NaN
    ELSE IF (IsInf(a) /\ IsZero(b)) \/ (IsZero(a) /\ IsInf(b)) THEN NaN
    ELSE IF IsInf(a) \/ IsInf(b) THEN Inf(Sgn(a) * Sgn(b))
    ELSE IF IsZero(a) \/ IsZero(b) THEN Zero(Sgn(a) * Sgn(b))
    ELSE MulFinite(Sgn(a) * Sgn(b), Sig(a), Sig(b), Exp(a) + Exp(b))

\* long division by B, seven bits at a time: the quotient and the remainder
RECURSIVE DivChunks(_, _, _, _)
DivChunks(B, q, r, n) ==
    IF n = 0 THEN <<q, r>>
    ELSE DivChunks(B, q * 128 + (r * 128) \div B, (r * 128) % B, n - 1)

DivRound(s, E, qr) == Round(s, qr[1], E - 28, qr[2] # 0)

\* the quotient of two significands of 24 bits
DivFinite(s, A, B, E) == DivRound(s, E, DivChunks(B, A \div B, A % B, 4))

\* ka and kb are the shifts that bring the significands to 24 bits
DivNormal(s, a, b, ka, kb) ==
    DivFinite(s, Sig(a) * 2^ka, Sig(b) * 2^kb, (Exp(a) - ka) - (Exp(b) - kb))

FDiv(a, b) ==
    IF IsNaN(a) \/ IsNaN(b) THEN NaN
    ELSE IF (IsInf(a) /\ IsInf(b)) \/ (IsZero(a) /\ IsZero(b)) THEN NaN
    ELSE IF IsInf(a) \/ IsZero(b) THEN Inf(Sgn(a) * Sgn(b))
    ELSE IF IsInf(b) \/ IsZero(a) THEN Zero(Sgn(a) * Sgn(b))
    ELSE DivNormal(Sgn(a) * Sgn(b), a, b, 24 - BitLen(Sig(a)), 24 - BitLen(Sig(b)))

\* the f32 nearest to the quotient of the integers n and d (d > 0)
Fin(n, d) == FDiv(F(n), F(d))

\* the signed key: orders like the value, the two zeros are equal
SKey(a) == IF a.s = 1 THEN -Key(a) ELSE Key(a)

\* a < b; false when either is NaN; -0 and +0 are equal
FLt(a, b) == ~IsNaN(a) /\ ~IsNaN(b) /\ SKey(a) < SKey(b)

FGt(a, b) == FLt(b, a)

FEq(a, b) == ~IsNaN(a) /\ ~IsNaN(b) /\ SKey(a) = SKey(b)

FLe(a, b) == FLt(a, b) \/ FEq(a, b)

FGe(a, b) == FLe(b, a)

\* the square root of a radicand of 26 bits followed by 13 pairs of zero
\* bits, a pair of bits at a time: the root and the remainder
RECURSIVE SqrtPairs(_, _, _, _)
SqrtStep(A, i, r, root) ==
    IF r >= root * 4 + 1 THEN SqrtPairs(A, i - 1, r - (root * 4 + 1), root * 2 + 1)
    ELSE SqrtPairs(A, i - 1, r, root * 2)

SqrtPairs(A, i, rem, root) ==
    IF i < -13 THEN <<root, rem>>
    ELSE SqrtStep(A, i, rem * 4 + (IF i >= 0 THEN (A \div 4^i) % 4 ELSE 0), root)

SqrtRound(E2, rr) == Round(1, rr[1], E2 \div 2 - 13, rr[2] # 0)

\* A * 2^E is the radicand, A of 24 bits: the exponent is made even
SqrtEven(A, E) ==
    IF E % 2 # 0 THEN SqrtRound(E - 1, SqrtPairs(A * 2, 12, 0, 0))
    ELSE SqrtRound(E, SqrtPairs(A, 12, 0, 0))

SqrtNormal(a, k) == SqrtEven(Sig(a) * 2^k, Exp(a) - k)

\* f32::sqrt
FSqrt(a) ==
    IF IsNaN(a) THEN NaN
    ELSE IF IsZero(a) THEN a
    ELSE IF a.s = 1 THEN NaN
    ELSE IF IsInf(a) THEN a
    ELSE SqrtNormal(a, 24 - BitLen(Sig(a)))

\* f32::min and f32::max: a NaN operand is ignored. For two zeros of
\* opposite sign either operand may be returned, and one binary answers
\* differently from one application to the next: z is the zero this
\* application returns.
FMin(a, b, z) ==
    IF IsNaN(a) THEN b
    ELSE IF IsNaN(b) THEN a
    ELSE IF IsZero(a) /\ IsZero(b) /\ a # b THEN z
    ELSE IF FLt(b, a) THEN b ELSE a

FMax(a, b, z) ==
    IF IsNaN(a) THEN b
    ELSE IF IsNaN(b) THEN a
    ELSE IF IsZero(a) /\ IsZero(b) /\ a # b THEN z
    ELSE IF FGt(b, a) THEN b ELSE a

\* what one pass of the loop of from_slice returns for zeros of opposite
\* sign: the zero of min.min(*n) and the zero of max.max(*n)
TieChoices == [min : {PZero, NZero}, max : {PZero, NZero}]

\* the choice written for a pass that cannot meet two zeros
NoTie == [min |-> NZero, max |-> PZero]

\* the choices of the n passes of one call of from_slice: the first pass
\* compares with f32::MAX and -f32::MAX, so it takes no choice
Ties(n) == {t \in [1..n -> TieChoices] : n > 0 => t[1] = NoTie}

\* a pass can meet two zeros of opposite sign only if its root is a zero and
\* an earlier root is the other zero
MeetsOtherZero(roots, i) ==
    \E j \in 1..(i - 1) : IsZero(roots[i]) /\ IsZero(roots[j]) /\ roots[j] # roots[i]

\* the choices for a given slice: only a pass that can meet two zeros takes one
TiesOf(roots) ==
    {t \in Ties(Len(roots)) :
        \A i \in DOMAIN roots : ~MeetsOtherZero(roots, i) => t[i] = NoTie}

\* a call of from_slice on two roots none of whose passes meets two zeros
NoTies == <<NoTie, NoTie>>

\* Option<T>: None is the empty sequence, Some(v) the one-element sequence
None == <<>>

Some(v) == <<v>>

(***************************************************************************)
(* Vec3 (crate::math::vec3): componentwise f32 arithmetic                  *)
(***************************************************************************)
Vec3(x, y, z) == [x |-> x, y |-> y, z |-> z]

vadd(a, b) == Vec3(FAdd(a.x, b.x), FAdd(a.y, b.y), FAdd(a.z, b.z))

vsub(a, b) == Vec3(FSub(a.x, b.x), FSub(a.y, b.y), FSub(a.z, b.z))

scale(a, f) == Vec3(FMul(a.x, f), FMul(a.y, f), FMul(a.z, f))

dot(a, b) == FAdd(FAdd(FMul(a.x, b.x), FMul(a.y, b.y)), FMul(a.z, b.z))

sqr_len(a) == dot(a, a)

len(a) == FSqrt(sqr_len(a))

\* crate::math::solve_quadratic: no roots for a negative discriminant, else
\* the two roots (-b +- sqrt(discriminant)) / 2a
quadratic_roots(b, two_a, discr_root) ==
    Some(<<FDiv(FAdd(FNeg(b), discr_root), two_a),
           FDiv(FSub(FNeg(b), discr_root), two_a)>>)

solve_by_discriminant(a, b, discriminant) ==
    IF FLt(discriminant, PZero) THEN None
    ELSE quadratic_roots(b, FMul(F(2), a), FSqrt(discriminant))

solve_quadratic(a, b, c) ==
    solve_by_discriminant(a, b, FSub(FMul(b, b), FMul(FMul(F(4), a), c)))

(***************************************************************************)
(* Ray and IntersectionResult                                              *)
(***************************************************************************)
Ray(origin, dir) == [origin |-> origin, dir |-> dir]

\* impl Default for Ray: origin at the world origin, direction +Z
DefaultRay == Ray(Vec3(PZero, PZero, PZero), Vec3(PZero, PZero, F(1)))

IntersectionResult(min, max) == [min |-> min, max |-> max]

\* the loop of from_slice; ties[i] holds the zeros that min.min(*n) and
\* max.max(*n) return in pass i should they compare zeros of opposite sign
RECURSIVE from_slice_loop(_, _, _, _)
from_slice_loop(roots, min, max, ties) ==
    IF roots = <<>> THEN IntersectionResult(min, max)
    ELSE from_slice_loop(Tail(roots), FMin(min, Head(roots), Head(ties).min),
                         FMax(max, Head(roots), Head(ties).max), Tail(ties))

\* from_slice with both accumulators started at zero
from_slice_zero_init(roots, ties) == from_slice_loop(roots, PZero, PZero, ties)

\* from_slice with the accumulators started at the infinities
from_slice_inf_init(roots, ties) == from_slice_loop(roots, PInf, NInf, ties)

from_slice(roots, ties) == from_slice_loop(roots, FMaxV, FNeg(FMaxV), ties)

\* merge with the second test chained by else
merge_else_if(self, param) ==
    IF FLt(param, self.min) THEN [self EXCEPT !.min = param]
    ELSE IF FGt(param, self.max) THEN [self EXCEPT !.max = param]
    ELSE self

\* merge with the two comparisons swapped
merge_swapped(self, param) ==
    LET s1 == IF FGt(param, self.min) THEN [self EXCEPT !.min = param] ELSE self
    IN  IF FLt(param, s1.max) THEN [s1 EXCEPT !.max = param] ELSE s1

merge(self, param) ==
    LET s1 == IF FLt(param, self.min) THEN [self EXCEPT !.min = param] ELSE self
    IN  IF FGt(param, s1.max) THEN [s1 EXCEPT !.max = param] ELSE s1

RECURSIVE merge_slice(_, _)
merge_slice(self, params) ==
    IF params = <<>> THEN self
    ELSE merge_slice(merge(self, Head(params)), Tail(params))

RECURSIVE from_set_loop(_, _)
from_set_loop(results, result) ==
    IF results = <<>> THEN result
    ELSE LET v == Head(results)
             next == IF result = None THEN v
                     ELSE IF v # None THEN Some(merge(merge(result[1], v[1].min), v[1].max))
                     ELSE result
         IN  from_set_loop(Tail(results), next)

\* from_set that gives up when the first entry is absent
from_set_first_only(results) ==
    IF results = <<>> \/ Head(results) = None THEN None
    ELSE from_set_loop(Tail(results), Head(results))

\* from_set merging only the lower bound of the later entries
RECURSIVE from_set_min_only_loop(_, _)
from_set_min_only_loop(results, result) ==
    IF results = <<>> THEN result
    ELSE LET v == Head(results)
             next == IF result = None THEN v
                     ELSE IF v # None THEN Some(merge(result[1], v[1].min))
                     ELSE result
         IN  from_set_min_only_loop(Tail(results), next)

from_set_min_only(results) == from_set_min_only_loop(results, None)

from_set(results) == from_set_loop(results, None)

(***************************************************************************)
(* impl Ray                                                                *)
(***************************************************************************)
\* std::f32::EPSILON, 2^-23
EPSILON == Bits(0, 104, 0)

Half == Fin(1, 2)

\* from_two_points with the direction taken from end to begin
from_two_points_reversed(begin, end) ==
    LET dir == vsub(begin, end)
    IN  IF FGe(len(dir), EPSILON) THEN Some(Ray(begin, dir)) ELSE None

from_two_points(begin, end) ==
    LET dir == vsub(end, begin)
    IN  IF FGe(len(dir), EPSILON) THEN Some(Ray(begin, dir)) ELSE None

get_point(self, t) == vadd(self.origin, scale(self.dir, t))

\* the roots of the sphere quadratic, d being the origin relative to the
\* centre of the sphere
sphere_roots(dir, d, radius) ==
    solve_quadratic(dot(dir, dir), FMul(F(2), dot(dir, d)),
                    FSub(dot(d, d), FMul(radius, radius)))

interval_of_roots(roots, ties) ==
    IF roots # None THEN Some(from_slice(roots[1], ties)) ELSE None

\* the choices open to from_slice on the result of the solver
RootTies(roots) == IF roots # None THEN TiesOf(roots[1]) ELSE {NoTies}

\* the choices open to sphere_intersection
SphereTies(self, position, radius) ==
    RootTies(sphere_roots(self.dir, vsub(self.origin, position), radius))

sphere_intersection(self, position, radius, ties) ==
    interval_of_roots(sphere_roots(self.dir, vsub(self.origin, position), radius), ties)

is_intersect_sphere(self, position, radius) ==
    LET d == vsub(self.origin, position)
        a == dot(self.dir, self.dir)
        b == FMul(F(2), dot(self.dir, d))
        c == FSub(dot(d, d), FMul(radius, radius))
        discriminant == FSub(FMul(b, b), FMul(FMul(F(4), a), c))
    IN  FGe(discriminant, PZero)

\* slab that takes an axis with a zero direction component as unbounded
slab_skip_zero(o, d, mn, mx) ==
    IF IsZero(d) THEN <<NInf, PInf>>
    ELSE IF FGe(d, PZero) THEN <<FDiv(FSub(mn, o), d), FDiv(FSub(mx, o), d)>>
    ELSE <<FDiv(FSub(mx, o), d), FDiv(FSub(mn, o), d)>>

\* the parameters of one axis without the ordering by the sign of the
\* direction component
slab_unordered(o, d, mn, mx) == <<FDiv(FSub(mn, o), d), FDiv(FSub(mx, o), d)>>

\* box_intersection, one axis: the parameters at which the ray crosses the
\* two planes of the axis, ordered by the sign of the direction component
slab(o, d, mn, mx) ==
    IF FGe(d, PZero) THEN <<FDiv(FSub(mn, o), d), FDiv(FSub(mx, o), d)>>
    ELSE <<FDiv(FSub(mx, o), d), FDiv(FSub(mn, o), d)>>

\* box_intersection without the final test against the segment [0, 1]
box_intersection_no_final(self, min, max) ==
    LET tx == slab(self.origin.x, self.dir.x, min.x, max.x)
        ty == slab(self.origin.y, self.dir.y, min.y, max.y)
        tz == slab(self.origin.z, self.dir.z, min.z, max.z)
    IN  IF FGt(tx[1], ty[2]) \/ FGt(ty[1], tx[2]) THEN None
        ELSE LET tmin1 == IF FGt(ty[1], tx[1]) THEN ty[1] ELSE tx[1]
                 tmax1 == IF FLt(ty[2], tx[2]) THEN ty[2] ELSE tx[2]
             IN  IF FGt(tmin1, tz[2]) \/ FGt(tz[1], tmax1) THEN None
                 ELSE LET tmin == IF FGt(tz[1], tmin1) THEN tz[1] ELSE tmin1
                          tmax == IF FLt(tz[2], tmax1) THEN tz[2] ELSE tmax1
                      IN  Some(IntersectionResult(tmin, tmax))

box_intersection(self, min, max) ==
    LET tx == slab(self.origin.x, self.dir.x, min.x, max.x)
        ty == slab(self.origin.y, self.dir.y, min.y, max.y)
        tz == slab(self.origin.z, self.dir.z, min.z, max.z)
    IN  IF FGt(tx[1], ty[2]) \/ FGt(ty[1], tx[2]) THEN None
        ELSE LET tmin1 == IF FGt(ty[1], tx[1]) THEN ty[1] ELSE tx[1]
                 tmax1 == IF FLt(ty[2], tx[2]) THEN ty[2] ELSE tx[2]
             IN  IF FGt(tmin1, tz[2]) \/ FGt(tz[1], tmax1) THEN None
                 ELSE LET tmin == IF FGt(tz[1], tmin1) THEN tz[1] ELSE tmin1
                          tmax == IF FLt(tz[2], tmax1) THEN tz[2] ELSE tmax1
                      IN  IF FLt(tmin, F(1)) /\ FGt(tmax, PZero)
                          THEN Some(IntersectionResult(tmin, tmax))
                          ELSE None

\* try_eval_points with the bounds 0 and 1 themselves excluded
try_eval_points_strict(self, result) ==
    IF result = None THEN None
    ELSE LET min == result[1].min
             max == result[1].max
             a == IF FGt(min, PZero) /\ FLt(min, F(1)) THEN Some(get_point(self, min)) ELSE None
             b == IF FGt(max, PZero) /\ FLt(max, F(1)) THEN Some(get_point(self, max)) ELSE None
         IN  IF a = None
             THEN (IF b = None THEN None ELSE Some(<<b[1], b[1]>>))
             ELSE (IF b = None THEN Some(<<a[1], a[1]>>) ELSE Some(<<a[1], b[1]>>))

try_eval_points(self, result) ==
    IF result = None THEN None
    ELSE LET min == result[1].min
             max == result[1].max
             a == IF FGe(min, PZero) /\ FLe(min, F(1)) THEN Some(get_point(self, min)) ELSE None
             b == IF FGe(max, PZero) /\ FLe(max, F(1)) THEN Some(get_point(self, max)) ELSE None
         IN  IF a = None
             THEN (IF b = None THEN None ELSE Some(<<b[1], b[1]>>))
             ELSE (IF b = None THEN Some(<<a[1], a[1]>>) ELSE Some(<<a[1], b[1]>>))

(***************************************************************************)
(* Collaborators of the plane, triangle and cylinder routines              *)
(* (crate::math::vec3, crate::math::plane, crate::math)                    *)
(***************************************************************************)
vneg(a) == Vec3(FNeg(a.x), FNeg(a.y), FNeg(a.z))

cross(a, b) ==
    Vec3(FSub(FMul(a.y, b.z), FMul(a.z, b.y)),
         FSub(FMul(a.z, b.x), FMul(a.x, b.z)),
         FSub(FMul(a.x, b.y), FMul(a.y, b.x)))

sqr_distance(a, b) == sqr_len(vsub(a, b))

\* Vec3::normalized: nothing for a vector of near-zero length, else the
\* vector scaled by the inverse of its length
normalized_by(a, l) ==
    IF FGe(l, EPSILON) THEN Some(scale(a, FDiv(F(1), l))) ELSE None

normalized(a) == normalized_by(a, len(a))

Plane(normal, d) == [normal |-> normal, d |-> d]

\* Plane::from_normal_and_point: fails (None) when the normal is degenerate
plane_through(n, point) ==
    IF n # None THEN Some(Plane(n[1], FNeg(dot(point, n[1])))) ELSE None

from_normal_and_point(normal, point) == plane_through(normalized(normal), point)

\* crate::math::is_point_inside_triangle: the barycentric coordinates of
\* the point in the frame of the two edges leaving the first vertex
is_point_inside_triangle(p, vertices) ==
    LET ba == vsub(vertices[2], vertices[1])
        ca == vsub(vertices[3], vertices[1])
        vp == vsub(p, vertices[1])
        ba_dot_ba == dot(ba, ba)
        ca_dot_ba == dot(ca, ba)
        ca_dot_ca == dot(ca, ca)
        dot02 == dot(ca, vp)
        dot12 == dot(ba, vp)
        inv_denom == FDiv(F(1), FSub(FMul(ca_dot_ca, ba_dot_ba), FMul(ca_dot_ba, ca_dot_ba)))
        u == FMul(FSub(FMul(ba_dot_ba, dot02), FMul(ca_dot_ba, dot12)), inv_denom)
        v == FMul(FSub(FMul(ca_dot_ca, dot12), FMul(ca_dot_ba, dot02)), inv_denom)
    IN  FGe(u, PZero) /\ FGe(v, PZero) /\ FLt(FAdd(u, v), F(1))

(***************************************************************************)
(* impl Ray: projection, plane and triangle                                *)
(***************************************************************************)
\* project_point that divides by the length instead of the squared length
project_point_by_len(self, point) ==
    FDiv(dot(vsub(point, self.origin), self.dir), len(self.dir))

project_point(self, point) ==
    FDiv(dot(vsub(point, self.origin), self.dir), sqr_len(self.dir))

sphere_intersection_points(self, position, radius, ties) ==
    try_eval_points(self, sphere_intersection(self, position, radius, ties))

\* box_intersection_points with the interval cut to the segment [0, 1]
\* before the points are evaluated
box_intersection_points_clamped(self, min, max) ==
    LET r == box_intersection(self, min, max)
    IN  IF r = None THEN None
        ELSE try_eval_points(self, Some(IntersectionResult(FMax(r[1].min, PZero, PZero),
                                                           FMin(r[1].max, F(1), PZero))))

box_intersection_points(self, min, max) ==
    try_eval_points(self, box_intersection(self, min, max))

\* plane_intersection without the negation of the numerator
plane_intersection_no_negation(self, plane) ==
    FDiv(FAdd(dot(self.origin, plane.normal), plane.d), dot(self.dir, plane.normal))

plane_intersection(self, plane) ==
    LET u == FNeg(FAdd(dot(self.origin, plane.normal), plane.d))
        v == dot(self.dir, plane.normal)
    IN  FDiv(u, v)

\* the point at t if t is not outside [0, 1]
point_in_segment(self, t) ==
    IF FLt(t, PZero) \/ FGt(t, F(1)) THEN None ELSE Some(get_point(self, t))

plane_intersection_point(self, plane) ==
    point_in_segment(self, plane_intersection(self, plane))

\* triangle_intersection without the point-in-triangle test
triangle_intersection_no_inside(self, vertices) ==
    LET ba == vsub(vertices[2], vertices[1])
        ca == vsub(vertices[3], vertices[1])
        plane == from_normal_and_point(cross(ba, ca), vertices[1])
    IN  IF plane = None THEN None ELSE plane_intersection_point(self, plane[1])

triangle_intersection(self, vertices) ==
    LET ba == vsub(vertices[2], vertices[1])
        ca == vsub(vertices[3], vertices[1])
        plane == from_normal_and_point(cross(ba, ca), vertices[1])
    IN  IF plane = None THEN None
        ELSE LET point == plane_intersection_point(self, plane[1])
             IN  IF point # None /\ is_point_inside_triangle(point[1], vertices)
                 THEN point
                 ELSE None

(***************************************************************************)
(* impl Ray: cylinder and capsule                                          *)
(***************************************************************************)
CylinderKind == {"Infinite", "Capped", "Finite"}

\* the outcome of a call that panics: Result::unwrap on an Err
Panic == <<"panic", "unwrap">>

\* the axis with +X in place of +Y for coincident points
axis_fallback_x(pa, pb) ==
    LET n == normalized(vsub(pb, pa))
    IN  IF n # None THEN n[1] ELSE Vec3(F(1), PZero, PZero)

\* the unit axis of the cylinder, or +Y when pa and pb (nearly) coincide
unwrap_or(n, default) == IF n # None THEN n[1] ELSE default

axis(pa, pb) == unwrap_or(normalized(vsub(pb, pa)), Vec3(PZero, F(1), PZero))

\* the coefficients a, b, c of the quadratic of the lateral surface
\* v less its component along the unit vector va
across(v, va) == vsub(v, scale(va, dot(v, va)))

lateral_coefficients(vl, dpva, r) ==
    <<sqr_len(vl), FMul(F(2), dot(vl, dpva)), FSub(sqr_len(dpva), FMul(r, r))>>

lateral_quadratic(self, pa, va, r) ==
    lateral_coefficients(across(self.dir, va), across(vsub(self.origin, pa), va), r)

\* one pass of the loop over the caps that never merges the cap parameter
cap_merge_never(self, result, cap_center, cap_normal, r) ==
    IF result = Panic \/ from_normal_and_point(cap_normal, cap_center) = None THEN Panic
    ELSE result

\* one pass of the loop over the caps without the test of the radius
cap_merge_any_distance(self, result, cap_center, cap_normal, r) ==
    IF result = Panic THEN Panic
    ELSE LET cap_plane == from_normal_and_point(cap_normal, cap_center)
         IN  IF cap_plane = None THEN Panic
             ELSE LET t == plane_intersection(self, cap_plane[1])
                  IN  IF FGt(t, PZero) THEN Some(merge(result[1], t)) ELSE result

\* one pass of the loop over the two caps; result is Some(interval) or Panic
cap_merge_at(self, result, cap_center, r, t) ==
    IF /\ FGt(t, PZero)
       /\ FLe(sqr_distance(cap_center, get_point(self, t)), FMul(r, r))
    THEN Some(merge(result[1], t))
    ELSE result

cap_merge_plane(self, result, cap_center, r, cap_plane) ==
    IF cap_plane = None THEN Panic
    ELSE cap_merge_at(self, result, cap_center, r, plane_intersection(self, cap_plane[1]))

cap_merge(self, result, cap_center, cap_normal, r) ==
    IF result = Panic THEN Panic
    ELSE cap_merge_plane(self, result, cap_center, r,
                         from_normal_and_point(cap_normal, cap_center))

\* the end of the Capped branch: the roots are merged after the caps
merge_roots(result, cylinder_roots) ==
    IF result = Panic THEN Panic ELSE Some(merge_slice(result[1], cylinder_roots))

\* CylinderKind::Capped
capped(self, pa, pb, va, r, cylinder_roots, ties) ==
    merge_roots(cap_merge(self, cap_merge(self, Some(from_slice(cylinder_roots, ties)),
                                          pa, vneg(va), r),
                          pb, va, r),
                cylinder_roots)

\* one pass of the loop over the roots that keeps every root
finite_filter_keep_all(self, result, root, pa, pb, va) ==
    IF result = None THEN Some(IntersectionResult(root, root))
    ELSE Some(merge(result[1], root))

\* one pass of the loop over the roots that tests the plane at pa only
finite_filter_above_pa(self, result, root, pa, pb, va) ==
    IF FGe(dot(vsub(get_point(self, root), pa), va), PZero)
    THEN (IF result = None THEN Some(IntersectionResult(root, root))
          ELSE Some(merge(result[1], root)))
    ELSE result

\* one pass of the loop over the roots; result is an Option of the interval
finite_filter_at(result, root, pa, pb, va, int_point) ==
    IF /\ FGe(dot(vsub(int_point, pa), va), PZero)
       /\ FGe(dot(vsub(pb, int_point), va), PZero)
    THEN (IF result = None THEN Some(IntersectionResult(root, root))
          ELSE Some(merge(result[1], root)))
    ELSE result

finite_filter(self, result, root, pa, pb, va) ==
    finite_filter_at(result, root, pa, pb, va, get_point(self, root))

\* CylinderKind::Finite
finite(self, pa, pb, va, cylinder_roots) ==
    finite_filter(self, finite_filter(self, None, cylinder_roots[1], pa, pb, va),
                  cylinder_roots[2], pa, pb, va)

\* the roots of the quadratic with the coefficients q = <<a, b, c>>
solve_lateral(q) == solve_quadratic(q[1], q[2], q[3])

\* the dispatch on the kind, given the axis va and the result of the solver
by_kind(self, pa, pb, va, r, kind, cylinder_roots, ties) ==
    IF cylinder_roots = None THEN None
    ELSE CASE kind = "Infinite" -> Some(from_slice(cylinder_roots[1], ties))
           [] kind = "Capped" -> capped(self, pa, pb, va, r, cylinder_roots[1], ties)
           [] kind = "Finite" -> finite(self, pa, pb, va, cylinder_roots[1])

\* cylinder_intersection, given the axis va
cylinder_along(self, pa, pb, va, r, kind, ties) ==
    by_kind(self, pa, pb, va, r, kind, solve_lateral(lateral_quadratic(self, pa, va, r)), ties)

\* the choices open to cylinder_intersection: those of from_slice on the
\* lateral roots (the Finite kind makes no such call)
CylinderTies(self, pa, pb, r, kind) ==
    IF kind = "Finite" THEN {NoTies}
    ELSE RootTies(solve_lateral(lateral_quadratic(self, pa, axis(pa, pb), r)))

cylinder_intersection(self, pa, pb, r, kind, ties) ==
    cylinder_along(self, pa, pb, axis(pa, pb), r, kind, ties)

\* capsule_intersection without the sphere at pb
capsule_intersection_one_cap(self, pa, pb, radius, ties) ==
    try_eval_points(self, from_set(<<cylinder_intersection(self, pa, pb, radius, "Finite",
                                                            NoTies),
                                     sphere_intersection(self, pa, radius, ties[1])>>))

\* ties: the choices of from_slice in the sphere at pa and in the sphere at pb
capsule_intersection(self, pa, pb, radius, ties) ==
    try_eval_points(self, from_set(<<cylinder_intersection(self, pa, pb, radius, "Finite",
                                                            NoTies),
                                     sphere_intersection(self, pa, radius, ties[1]),
                                     sphere_intersection(self, pb, radius, ties[2])>>))

(***************************************************************************)
(* The interval algebra as a state machine: res is the IntersectionResult  *)
(* under construction and mutation, call is the last operation applied.    *)
(***************************************************************************)
\* longest slice handed to from_slice and from_set
MaxLen == 3

\* longest slice handed to merge_slice (the two roots of a quadratic)
MaxMergeLen == 2

SeqsUpTo(S, n) == UNION {[1..k -> S] : k \in 0..n}

\* finite parameter values, both zeros and the largest finite f32 among them
Params == {F(-1), NZero, PZero, F(2), F(5), FMaxV}

MergeParams == {F(-1), F(2), F(5)}

\* entries of a from_set list: absent, well-formed intervals, an interval
\* with min > max, and the sentinel from_slice gives for no roots
SetEntries ==
    {None,
     Some(IntersectionResult(F(1), F(3))), Some(IntersectionResult(F(2), F(4))),
     Some(IntersectionResult(PZero, PZero)), Some(IntersectionResult(F(4), F(1))),
     Some(from_slice(<<>>, <<>>))}

InitInterval ==
    /\ ray = DefaultRay
    /\ res = None
    /\ call = [op |-> "init"]

\* the zero returned for two zeros of opposite sign is chosen in every pass
FromSlice(roots) ==
    /\ call.op = "init"
    /\ \E ties \in TiesOf(roots) : res' = Some(from_slice(roots, ties))
    /\ call' = [op |-> "from_slice", roots |-> roots]
    /\ UNCHANGED ray

FromSet(results) ==
    /\ call.op = "init"
    /\ res' = from_set(results)
    /\ call' = [op |-> "from_set", results |-> results]
    /\ UNCHANGED ray

Merge(param) ==
    /\ res # None
    /\ res' = Some(merge(res[1], param))
    /\ call' = [op |-> "merge", param |-> param, old |-> res[1]]
    /\ UNCHANGED ray

MergeSlice(params) ==
    /\ res # None
    /\ res' = Some(merge_slice(res[1], params))
    /\ call' = [op |-> "merge_slice", params |-> params, old |-> res[1]]
    /\ UNCHANGED ray

NextInterval ==
    \/ \E roots \in SeqsUpTo(Params, MaxLen) : FromSlice(roots)
    \/ \E results \in SeqsUpTo(SetEntries, MaxLen) : FromSet(results)
    \/ \E param \in Params : Merge(param)
    \/ \E params \in SeqsUpTo(MergeParams, MaxMergeLen) : MergeSlice(params)

SpecInterval == InitInterval /\ [][NextInterval]_vars

(***************************************************************************)
(* Ray construction and the point utilities as a state machine: ray is the *)
(* ray in hand (the default ray until from_two_points gives one), call the *)
(* last operation with its arguments and its return value.                 *)
(***************************************************************************)
Vec3Over(S) == {Vec3(x, y, z) : x \in S, y \in S, z \in S}

\* the two points of from_two_points: equal, closer than EPSILON, exactly
\* EPSILON apart, a short way apart (1/8) and far apart
BeginPoints == {Vec3(PZero, PZero, PZero), Vec3(F(1), PZero, F(-1))}

EndPoints ==
    {Vec3(x, y, z) : x \in {PZero, FMul(Half, EPSILON), EPSILON, Fin(1, 8), F(1)},
                     y \in {PZero, FMul(Half, EPSILON)}, z \in {PZero, F(-1)}}

\* ray parameters: before, on and after both ends of the segment, and NaN
Ts == {F(-1), PZero, Fin(1, 2), F(1), F(2), NaN}

OptIntervals == {None} \cup {Some(IntersectionResult(a, b)) : a \in Ts, b \in Ts}

Init ==
    /\ ray = DefaultRay
    /\ res = None
    /\ call = [op |-> "init"]

FromTwoPoints(begin, end) ==
    /\ call.op = "init"
    /\ LET ret == from_two_points(begin, end)
       IN  /\ ray' = IF ret # None THEN ret[1] ELSE ray
           /\ call' = [op |-> "from_two_points", begin |-> begin, end |-> end, ret |-> ret]
    /\ UNCHANGED res

GetPoint(t) ==
    /\ call' = [op |-> "get_point", t |-> t, ret |-> get_point(ray, t)]
    /\ UNCHANGED <<ray, res>>

TryEvalPoints(result) ==
    /\ call' = [op |-> "try_eval_points", result |-> result,
                ret |-> try_eval_points(ray, result)]
    /\ UNCHANGED <<ray, res>>

Next ==
    \/ \E begin \in BeginPoints, end \in EndPoints : FromTwoPoints(begin, end)
    \/ \E t \in Ts : GetPoint(t)
    \/ \E result \in OptIntervals : TryEvalPoints(result)

Spec == Init /\ [][Next]_vars

(***************************************************************************)
(* Sphere queries: the ray is any Ray value (its fields are public), drawn *)
(* at the start; each action is one query on it.                           *)
(***************************************************************************)
\* largest magnitude of a ray origin coordinate
MaxCoord == 1

Coords == {F(i) : i \in -MaxCoord..MaxCoord}

SphereDirs ==
    {Vec3(F(1), PZero, PZero), Vec3(PZero, PZero, F(1)), Vec3(F(1), F(1), PZero),
     Vec3(F(-1), PZero, F(2)), Vec3(PZero, F(-2), PZero), Vec3(PZero, PZero, PZero)}

\* 2^64, a coordinate whose square is beyond f32::MAX
Huge == Bits(0, 191, 0)

\* the centres: at the origin, off the axes, and so far away that the
\* squares in the discriminant overflow
SphereCenters ==
    {Vec3(PZero, PZero, PZero), Vec3(F(1), PZero, F(-1)), Vec3(PZero, Huge, PZero)}

Radii == {PZero, F(1), F(2)}

InitSphere ==
    /\ ray \in {Ray(o, d) : o \in Vec3Over(Coords), d \in SphereDirs}
    /\ res = None
    /\ call = [op |-> "init"]

\* call.ties records the zeros that from_slice chose in this call
SphereIntersection(position, radius) ==
    /\ call.op = "init"
    /\ \E ties \in SphereTies(ray, position, radius) :
           call' = [op |-> "sphere_intersection", position |-> position, radius |-> radius,
                    ties |-> ties, ret |-> sphere_intersection(ray, position, radius, ties)]
    /\ UNCHANGED <<ray, res>>

IsIntersectSphere(position, radius) ==
    /\ call.op = "init"
    /\ call' = [op |-> "is_intersect_sphere", position |-> position, radius |-> radius,
                ret |-> is_intersect_sphere(ray, position, radius)]
    /\ UNCHANGED <<ray, res>>

NextSphere ==
    \/ \E position \in SphereCenters, radius \in Radii : SphereIntersection(position, radius)
    \/ \E position \in SphereCenters, radius \in Radii : IsIntersectSphere(position, radius)

SpecSphere == InitSphere /\ [][NextSphere]_vars

(***************************************************************************)
(* Box queries: the ray is any Ray value whose direction components are    *)
(* negative, -0, +0 or positive.                                           *)
(***************************************************************************)
BoxDirs == Vec3Over({F(-1), NZero, PZero, F(1)})

\* [min, max] pairs: centred on the origin, off-centre, away from the rays
\* on the y axis, flat on the y axis, with min > max on the x axis, large
\* enough to hold a whole segment, and thin enough on the x axis to be
\* crossed within a segment
Boxes ==
    {<<Vec3(F(-1), F(-1), F(-1)), Vec3(F(1), F(1), F(1))>>,
     <<Vec3(PZero, PZero, PZero), Vec3(F(1), F(1), F(1))>>,
     <<Vec3(F(-1), F(5), F(-1)), Vec3(F(1), F(6), F(1))>>,
     <<Vec3(F(-1), PZero, F(-1)), Vec3(F(1), PZero, F(1))>>,
     <<Vec3(F(1), F(-1), F(-1)), Vec3(F(-1), F(1), F(1))>>,
     <<Vec3(F(-3), F(-3), F(-3)), Vec3(F(3), F(3), F(3))>>,
     <<Vec3(Fin(1, 4), F(-1), F(-1)), Vec3(Fin(3, 4), F(1), F(1))>>}

InitBox ==
    /\ ray \in {Ray(o, d) : o \in Vec3Over(Coords), d \in BoxDirs}
    /\ res = None
    /\ call = [op |-> "init"]

BoxIntersection(min, max) ==
    /\ call.op = "init"
    /\ call' = [op |-> "box_intersection", min |-> min, max |-> max,
                ret |-> box_intersection(ray, min, max)]
    /\ UNCHANGED <<ray, res>>

BoxIntersectionPoints(min, max) ==
    /\ call.op = "init"
    /\ call' = [op |-> "box_intersection_points", min |-> min, max |-> max,
                ret |-> box_intersection_points(ray, min, max)]
    /\ UNCHANGED <<ray, res>>

NextBox ==
    \/ \E b \in Boxes : BoxIntersection(b[1], b[2])
    \/ \E b \in Boxes : BoxIntersectionPoints(b[1], b[2])

SpecBox == InitBox /\ [][NextBox]_vars

(***************************************************************************)
(* Plane, triangle and projection queries: one query on a ray drawn in     *)
(* the initial state.                                                      *)
(***************************************************************************)
PlaneDirs ==
    {Vec3(PZero, PZero, F(1)), Vec3(PZero, PZero, F(2)), Vec3(F(2), PZero, PZero),
     Vec3(F(1), F(2), F(-2)), Vec3(PZero, F(-1), PZero), Vec3(PZero, PZero, PZero)}

\* the ray of the regression test, from (0, 0, -2) towards (0, 0, -1)
TestRay == from_two_points(Vec3(PZero, PZero, F(-2)), Vec3(PZero, PZero, F(-1)))[1]

PlaneNormals ==
    {Vec3(PZero, PZero, F(1)), Vec3(PZero, F(2), PZero), Vec3(PZero, F(3), F(4)),
     Vec3(F(1), F(1), PZero)}

PlanePoints == {Vec3(PZero, PZero, PZero), Vec3(F(1), PZero, F(-1)), Vec3(PZero, PZero, Half)}

Planes == {from_normal_and_point(n, p)[1] : n \in PlaneNormals, p \in PlanePoints}

\* the triangle of the regression test, in the plane z = 0
TestTriangle ==
    <<Vec3(PZero, Half, PZero), Vec3(FNeg(Half), FNeg(Half), PZero),
      Vec3(Half, FNeg(Half), PZero)>>

Triangles ==
    {TestTriangle,
     <<Vec3(PZero, PZero, PZero), Vec3(F(1), PZero, PZero), Vec3(F(2), PZero, PZero)>>,
     <<Vec3(PZero, PZero, PZero), Vec3(PZero, F(2), PZero), Vec3(PZero, PZero, F(2))>>,
     <<Vec3(F(1), F(1), F(1)), Vec3(F(1), F(1), F(1)), Vec3(PZero, F(1), PZero)>>,
     <<Vec3(PZero, PZero, PZero), Vec3(Fin(1, 4), PZero, PZero), Vec3(PZero, Fin(1, 4), PZero)>>}

ProjectedPoints ==
    {Vec3(PZero, PZero, PZero), Vec3(F(1), PZero, F(-1)), Vec3(Half, F(1), F(1)),
     Vec3(F(-1), F(2), PZero)}

InitPlane ==
    /\ ray \in {Ray(o, d) : o \in Vec3Over(Coords), d \in PlaneDirs} \cup {TestRay}
    /\ res = None
    /\ call = [op |-> "init"]

ProjectPoint(point) ==
    /\ call.op = "init"
    /\ call' = [op |-> "project_point", point |-> point, ret |-> project_point(ray, point)]
    /\ UNCHANGED <<ray, res>>

PlaneIntersection(plane) ==
    /\ call.op = "init"
    /\ call' = [op |-> "plane_intersection", plane |-> plane,
                ret |-> plane_intersection(ray, plane)]
    /\ UNCHANGED <<ray, res>>

PlaneIntersectionPoint(plane) ==
    /\ call.op = "init"
    /\ call' = [op |-> "plane_intersection_point", plane |-> plane,
                ret |-> plane_intersection_point(ray, plane)]
    /\ UNCHANGED <<ray, res>>

TriangleIntersection(vertices) ==
    /\ call.op = "init"
    /\ call' = [op |-> "triangle_intersection", vertices |-> vertices,
                ret |-> triangle_intersection(ray, vertices)]
    /\ UNCHANGED <<ray, res>>

NextPlane ==
    \/ \E point \in ProjectedPoints : ProjectPoint(point)
    \/ \E plane \in Planes : PlaneIntersection(plane)
    \/ \E plane \in Planes : PlaneIntersectionPoint(plane)
    \/ \E vertices \in Triangles : TriangleIntersection(vertices)

SpecPlane == InitPlane /\ [][NextPlane]_vars

(***************************************************************************)
(* Cylinder and capsule queries: one query on a ray drawn in the initial   *)
(* state.                                                                  *)
(***************************************************************************)
CylinderDirs ==
    {Vec3(PZero, F(4), PZero), Vec3(F(2), PZero, PZero), Vec3(F(1), F(2), PZero),
     Vec3(PZero, PZero, F(-2)), Vec3(F(2), F(1), F(2)), Vec3(PZero, PZero, PZero)}

\* the axis end points pa and pb
Axes ==
    {<<Vec3(PZero, PZero, PZero), Vec3(PZero, F(2), PZero)>>,
     <<Vec3(PZero, PZero, PZero), Vec3(F(2), PZero, PZero)>>,
     <<Vec3(PZero, PZero, PZero), Vec3(PZero, F(3), F(4))>>,
     <<Vec3(PZero, PZero, PZero), Vec3(PZero, PZero, PZero)>>,
     <<Vec3(F(1), PZero, F(-1)), Vec3(F(1), PZero, F(-1))>>,
     <<Vec3(PZero, PZero, PZero), Vec3(PZero, Huge, PZero)>>}

CylinderRadii == {Half, F(1)}

\* ray origins: inside the cylinders, on their axes and caps, beside and
\* diagonally off them
CylinderOrigins ==
    {Vec3(PZero, PZero, PZero), Vec3(PZero, F(-1), PZero), Vec3(F(-1), PZero, PZero),
     Vec3(PZero, PZero, F(-1)), Vec3(F(1), PZero, F(-1)), Vec3(F(-1), F(1), PZero),
     Vec3(F(1), F(-1), F(-1)), Vec3(F(1), F(-1), F(1)), Vec3(F(-1), F(-1), F(-1))}

InitCylinder ==
    /\ ray \in {Ray(o, d) : o \in CylinderOrigins, d \in CylinderDirs}
    /\ res = None
    /\ call = [op |-> "init"]

\* call.ties records the zeros that from_slice chose in this call
CylinderIntersection(pa, pb, r, kind) ==
    /\ call.op = "init"
    /\ \E ties \in CylinderTies(ray, pa, pb, r, kind) :
           call' = [op |-> "cylinder_intersection", pa |-> pa, pb |-> pb, r |-> r,
                    kind |-> kind, ties |-> ties,
                    ret |-> cylinder_intersection(ray, pa, pb, r, kind, ties)]
    /\ UNCHANGED <<ray, res>>

\* call.ties records the zeros that from_slice chose in the sphere at pa and
\* in the sphere at pb
CapsuleIntersection(pa, pb, radius) ==
    /\ call.op = "init"
    /\ \E ties \in SphereTies(ray, pa, radius) \X SphereTies(ray, pb, radius) :
           call' = [op |-> "capsule_intersection", pa |-> pa, pb |-> pb, r |-> radius,
                    ties |-> ties, ret |-> capsule_intersection(ray, pa, pb, radius, ties)]
    /\ UNCHANGED <<ray, res>>

NextCylinder ==
    \/ \E ax \in Axes, r \in CylinderRadii, kind \in CylinderKind :
           CylinderIntersection(ax[1], ax[2], r, kind)
    \/ \E ax \in Axes, r \in CylinderRadii : CapsuleIntersection(ax[1], ax[2], r)

SpecCylinder == InitCylinder /\ [][NextCylinder]_vars

(***************************************************************************)
(* Comparison up to the rounding of f32                                    *)
(***************************************************************************)
\* 2^-20, eight units in the last place of 1: what rounding can leave of a
\* quantity that is zero in exact arithmetic, for operands of the order of 1
Tolerance == Bits(0, 107, 0)

FAbs(a) == IF IsNaN(a) THEN NaN ELSE Bits(0, a.e, a.m)

AlmostZero(a) == FLe(FAbs(a), Tolerance)

\* equal, or apart by no more than rounding can explain
AlmostEq(a, b) == a = b \/ AlmostZero(FSub(a, b))

(***************************************************************************)
(* Claims about IntersectionResult (checked under SpecInterval)            *)
(***************************************************************************)
WellFormed(r) == FLe(r.min, r.max)

Count(s, v) == Cardinality({i \in DOMAIN s : s[i] = v})

IsPermutation(s, t) == Len(s) = Len(t) /\ \A v \in Params : Count(s, v) = Count(t, v)

PresentIdx(results) == {i \in DOMAIN results : results[i] # None}

AllPresentWellFormed(results) == \A i \in PresentIdx(results) : WellFormed(results[i][1])

\* the same interval of real numbers: the two zeros are one real value
SameInterval(p, q) == FEq(p.min, q.min) /\ FEq(p.max, q.max)

\* the sign of a zero bound of from_slice is not fixed by the roots: a slice
\* that starts and ends with -0 can give +0 for both bounds, and a slice that
\* starts and ends with +0 can give -0 for both
FromSliceZeroSignVaries ==
    /\ call.op = "from_slice"
    /\ \/ /\ call.roots = <<NZero, PZero, NZero>>
          /\ res = Some(IntersectionResult(PZero, PZero))
       \/ /\ call.roots = <<PZero, NZero, PZero>>
          /\ res = Some(IntersectionResult(NZero, NZero))

\* C1: from_slice of a non-empty list of finite values returns min = the
\* smallest element and max = the largest element, whatever the order of the
\* elements (every permutation of the list gives the same interval of real
\* numbers).
C1_FromSliceMinMax ==
    (call.op = "from_slice" /\ call.roots # <<>>) =>
        LET roots == call.roots
            r == res[1]
        IN  /\ \E i \in DOMAIN roots : r.min = roots[i]
            /\ \A i \in DOMAIN roots : FLe(r.min, roots[i])
            /\ \E i \in DOMAIN roots : r.max = roots[i]
            /\ \A i \in DOMAIN roots : FGe(r.max, roots[i])
            /\ \A other \in SeqsUpTo(Params, Len(roots)) :
                   IsPermutation(other, roots) =>
                       \A ties \in TiesOf(other) : SameInterval(from_slice(other, ties), r)

C1_Witness ==
    /\ call.op = "from_slice"
    /\ call.roots = <<F(2), F(-1), F(5)>>
    /\ res = Some(IntersectionResult(F(-1), F(5)))

\* C2: from_set over a list of optional intervals (each present one with
\* min <= max) is absent iff every entry is absent; otherwise its min is the
\* smallest present min and its max the largest present max, absent entries
\* being skipped wherever they stand.
C2_FromSetBounding ==
    (call.op = "from_set" /\ AllPresentWellFormed(call.results)) =>
        LET results == call.results
            P == PresentIdx(results)
        IN  /\ (res = None) <=> (P = {})
            /\ res # None =>
                   /\ \E i \in P : res[1].min = results[i][1].min
                   /\ \A i \in P : FLe(res[1].min, results[i][1].min)
                   /\ \E i \in P : res[1].max = results[i][1].max
                   /\ \A i \in P : FGe(res[1].max, results[i][1].max)

C2_Witness ==
    /\ call.op = "from_set"
    /\ call.results = <<Some(IntersectionResult(F(1), F(3))), None,
                        Some(IntersectionResult(F(2), F(4)))>>
    /\ res = Some(IntersectionResult(F(1), F(4)))

\* C3: merge(param) leaves min = the lesser of the old min and param and
\* max = the greater of the old max and param; a param inside [min, max]
\* changes nothing; the interval never shrinks.
C3_MergeExpands ==
    call.op = "merge" =>
        LET old == call.old
            p == call.param
            new == res[1]
        IN  /\ new.min \in {old.min, p}
            /\ FLe(new.min, old.min) /\ FLe(new.min, p)
            /\ new.max \in {old.max, p}
            /\ FGe(new.max, old.max) /\ FGe(new.max, p)
            /\ (FLe(old.min, p) /\ FLe(p, old.max)) => new = old

C3_Witness ==
    /\ call.op = "merge"
    /\ WellFormed(call.old)
    /\ FLt(call.param, call.old.min)
    /\ res[1] = IntersectionResult(call.param, call.old.max)

\* C4: min <= max holds after from_slice of a non-empty list, and merge,
\* merge_slice and from_set keep it when the intervals they are given have it.
C4_MinLeMax ==
    /\ (call.op = "from_slice" /\ call.roots # <<>>) => WellFormed(res[1])
    /\ (call.op \in {"merge", "merge_slice"} /\ WellFormed(call.old)) => WellFormed(res[1])
    /\ (call.op = "from_set" /\ AllPresentWellFormed(call.results) /\ res # None) =>
           WellFormed(res[1])

C4_Witness ==
    /\ call.op = "merge_slice"
    /\ WellFormed(call.old)
    /\ FLt(res[1].min, call.old.min)
    /\ FGt(res[1].max, call.old.max)

\* C5 as stated: from_slice of an empty list returns min = +infinity and
\* max = -infinity.
C5_EmptyIsInfinite ==
    (call.op = "from_slice" /\ call.roots = <<>>) =>
        res = Some(IntersectionResult(PInf, NInf))

\* C5 amended: from_slice of an empty list returns the sentinel whose min is
\* the largest finite f32 (f32::MAX) and whose max is -f32::MAX; both are
\* finite and min > max.
C5_EmptyIsFiniteSentinel ==
    (call.op = "from_slice" /\ call.roots = <<>>) =>
        /\ res = Some(IntersectionResult(FMaxV, FNeg(FMaxV)))
        /\ IsFinite(res[1].min) /\ IsFinite(res[1].max)
        /\ FGt(res[1].min, res[1].max)

C5_Witness ==
    /\ call.op = "from_slice"
    /\ call.roots = <<>>
    /\ ~WellFormed(res[1])

(***************************************************************************)
(* Claims about Ray                                                        *)
(***************************************************************************)
\* equal as numbers, component by component (-0 equals +0, NaN equals nothing)
VEq(a, b) == FEq(a.x, b.x) /\ FEq(a.y, b.y) /\ FEq(a.z, b.z)

InUnit(t) == FGe(t, PZero) /\ FLe(t, F(1))

\* C6: from_two_points(begin, end) returns nothing when the distance from
\* begin to end is below EPSILON, and otherwise the ray with origin = begin
\* and dir = end - begin, for which get_point(0) = begin and get_point(1) = end.
C6_FromTwoPoints ==
    call.op = "from_two_points" =>
        LET begin == call.begin
            end == call.end
        IN  IF FLt(len(vsub(end, begin)), EPSILON) THEN call.ret = None
            ELSE /\ call.ret # None
                 /\ ray = call.ret[1]
                 /\ VEq(ray.origin, begin)
                 /\ VEq(vadd(begin, ray.dir), end)
                 /\ VEq(get_point(ray, PZero), begin)
                 /\ VEq(get_point(ray, F(1)), end)

C6_Witness ==
    /\ call.op = "from_two_points"
    /\ call.ret # None
    /\ ~IsZero(ray.dir.x) /\ ~IsZero(ray.dir.y) /\ ~IsZero(ray.dir.z)
    /\ VEq(get_point(ray, F(1)), call.end)

\* C7: try_eval_points returns nothing for an absent interval; for a present
\* one it keeps each bound that lies in [0, 1] (0 and 1 included): both kept
\* gives [get_point(min), get_point(max)], one kept gives that point twice,
\* none kept gives nothing; every returned point is get_point(t) for a bound
\* t in [0, 1].
C7_TryEvalPoints ==
    call.op = "try_eval_points" =>
        IF call.result = None THEN call.ret = None
        ELSE LET min == call.result[1].min
                 max == call.result[1].max
                 pmin == get_point(ray, min)
                 pmax == get_point(ray, max)
             IN  /\ (InUnit(min) /\ InUnit(max)) => call.ret = Some(<<pmin, pmax>>)
                 /\ (InUnit(min) /\ ~InUnit(max)) => call.ret = Some(<<pmin, pmin>>)
                 /\ (~InUnit(min) /\ InUnit(max)) => call.ret = Some(<<pmax, pmax>>)
                 /\ (~InUnit(min) /\ ~InUnit(max)) => call.ret = None
                 /\ call.ret # None =>
                        \A i \in 1..2 : \E t \in {min, max} :
                            InUnit(t) /\ call.ret[1][i] = get_point(ray, t)

C7_Witness ==
    /\ call.op = "try_eval_points"
    /\ ray # DefaultRay
    /\ call.result = Some(IntersectionResult(F(-1), F(1)))
    /\ call.ret = Some(<<get_point(ray, F(1)), get_point(ray, F(1))>>)

\* the discriminant of the sphere quadratic: a = D.D, b = 2 D.(O - C),
\* c = (O - C).(O - C) - r r
SphereDiscriminant(r, position, radius) ==
    LET oc == vsub(r.origin, position)
        a == dot(r.dir, r.dir)
        b == FMul(F(2), dot(r.dir, oc))
        c == FSub(dot(oc, oc), FMul(radius, radius))
    IN  FSub(FMul(b, b), FMul(FMul(F(4), a), c))

\* C8: for every ray and every sphere is_intersect_sphere is true iff
\* sphere_intersection gives a result, and both iff the discriminant of the
\* sphere quadratic is not negative.
C8_SphereAgree ==
    /\ call.op = "is_intersect_sphere" =>
           /\ \A ties \in Ties(2) :
                  call.ret <=>
                      (sphere_intersection(ray, call.position, call.radius, ties) # None)
           /\ call.ret <=> FGe(SphereDiscriminant(ray, call.position, call.radius), PZero)
    /\ call.op = "sphere_intersection" =>
           /\ (call.ret # None) <=> is_intersect_sphere(ray, call.position, call.radius)
           /\ (call.ret # None) <=>
                  FGe(SphereDiscriminant(ray, call.position, call.radius), PZero)

\* The same for the queries whose discriminant is a number: there the two
\* routines agree.
SphereAgreeUnlessNaN ==
    (/\ call.op \in {"is_intersect_sphere", "sphere_intersection"}
     /\ ~IsNaN(SphereDiscriminant(ray, call.position, call.radius)))
        => C8_SphereAgree

\* a ray tangent to the sphere: the discriminant is exactly zero
TangentSphereHit ==
    /\ call.op = "is_intersect_sphere"
    /\ call.ret
    /\ ~IsZero(sqr_len(ray.dir))
    /\ IsZero(SphereDiscriminant(ray, call.position, call.radius))

\* the discriminant is inf - inf = NaN: is_intersect_sphere answers false,
\* sphere_intersection answers with the start values of from_slice
SphereDisagreeOnNaN ==
    /\ call.op = "sphere_intersection"
    /\ IsNaN(SphereDiscriminant(ray, call.position, call.radius))
    /\ call.ret = Some(IntersectionResult(FMaxV, FNeg(FMaxV)))
    /\ ~is_intersect_sphere(ray, call.position, call.radius)

\* the ray's coordinate o + d t is outside [mn, mx] for every t
OutsideOnAxis(o, d, mn, mx) == IsZero(d) /\ (FLt(o, mn) \/ FGt(o, mx))

WellFormedBox(min, max) == FLe(min.x, max.x) /\ FLe(min.y, max.y) /\ FLe(min.z, max.z)

\* C9: a ray that stays outside the box on at least one axis gets no
\* intersection from box_intersection.
C9_OutsideNoIntersection ==
    (/\ call.op = "box_intersection"
     /\ WellFormedBox(call.min, call.max)
     /\ \/ OutsideOnAxis(ray.origin.x, ray.dir.x, call.min.x, call.max.x)
        \/ OutsideOnAxis(ray.origin.y, ray.dir.y, call.min.y, call.max.y)
        \/ OutsideOnAxis(ray.origin.z, ray.dir.z, call.min.z, call.max.z))
    => call.ret = None

\* the ray along +X through the origin against a box with y in [5, 6]
C9_Witness ==
    /\ call.op = "box_intersection"
    /\ ray = Ray(Vec3(PZero, PZero, PZero), Vec3(F(1), PZero, PZero))
    /\ call.min.y = F(5) /\ call.max.y = F(6)
    /\ call.ret = None

Center(min, max) == scale(vadd(min, max), Half)

\* the segment of the ray from t = 0 to t = 1 passes through point c
SegmentThrough(r, c) ==
    LET t == FDiv(dot(vsub(c, r.origin), r.dir), sqr_len(r.dir))
    IN  InUnit(t) /\ VEq(get_point(r, t), c)

InBox(p, min, max) ==
    /\ FLe(min.x, p.x) /\ FLe(p.x, max.x)
    /\ FLe(min.y, p.y) /\ FLe(p.y, max.y)
    /\ FLe(min.z, p.z) /\ FLe(p.z, max.z)

OnSurface(p, min, max) ==
    /\ InBox(p, min, max)
    /\ \/ FEq(p.x, min.x) \/ FEq(p.x, max.x)
       \/ FEq(p.y, min.y) \/ FEq(p.y, max.y)
       \/ FEq(p.z, min.z) \/ FEq(p.z, max.z)

ThroughCenter ==
    /\ call.op = "box_intersection"
    /\ FLt(call.min.x, call.max.x) /\ FLt(call.min.y, call.max.y) /\ FLt(call.min.z, call.max.z)
    /\ SegmentThrough(ray, Center(call.min, call.max))

EndpointsOnSurface ==
    /\ call.ret # None
    /\ OnSurface(get_point(ray, call.ret[1].min), call.min, call.max)
    /\ OnSurface(get_point(ray, call.ret[1].max), call.min, call.max)

\* C10: for a ray through the centre of a box (min < max on every axis)
\* box_intersection returns an interval whose two endpoints, taken through
\* get_point, are points on the surface of the box.
C10_ThroughCenterOnSurface == ThroughCenter => EndpointsOnSurface

NoNegZeroDir == ray.dir.x # NZero /\ ray.dir.y # NZero /\ ray.dir.z # NZero

\* the same statement for rays with no -0 direction component (it holds)
ThroughCenterOnSurfaceNoNegZero == (ThroughCenter /\ NoNegZeroDir) => EndpointsOnSurface

(***************************************************************************)
(* Claims about the plane, triangle and projection queries (SpecPlane)     *)
(***************************************************************************)
\* the plane equation holds at p up to rounding
OnPlane(p, plane) == AlmostZero(FAdd(dot(p, plane.normal), plane.d))

IsZeroVec(a) == IsZero(a.x) /\ IsZero(a.y) /\ IsZero(a.z)

\* p = origin + s * dir for some s in [0, 1], up to rounding
AlmostZeroVec(a) == AlmostZero(a.x) /\ AlmostZero(a.y) /\ AlmostZero(a.z)

OnSegment(p, r) ==
    LET w == vsub(p, r.origin)
    IN  /\ AlmostZeroVec(cross(w, r.dir))
        /\ FGe(dot(w, r.dir), FNeg(Tolerance))
        /\ FLe(dot(w, r.dir), FAdd(sqr_len(r.dir), Tolerance))

PlanePointFiltered ==
    LET t == plane_intersection(ray, call.plane)
    IN  /\ (FLt(t, PZero) \/ FGt(t, F(1))) => call.ret = None
        /\ InUnit(t) => call.ret = Some(get_point(ray, t))

PlanePointOnPlaneAndSegment ==
    call.ret # None => OnPlane(call.ret[1], call.plane) /\ OnSegment(call.ret[1], ray)

\* C11: plane_intersection_point returns nothing when the plane parameter t
\* is outside [0, 1] and get_point(t) when it is inside, and every point it
\* returns lies on the plane and on the segment from origin to origin + dir.
C11_PlanePointInSegment ==
    call.op = "plane_intersection_point" => PlanePointFiltered /\ PlanePointOnPlaneAndSegment

\* The same holds of every query whose plane parameter is a number: the
\* exception is the ray that lies in the plane, whose parameter is 0/0.
PlanePointInSegmentUnlessNaN ==
    (call.op = "plane_intersection_point" /\ ~IsNaN(plane_intersection(ray, call.plane)))
        => PlanePointFiltered /\ PlanePointOnPlaneAndSegment

PlanePointReturned ==
    /\ call.op = "plane_intersection_point"
    /\ call.ret # None
    /\ ~IsNaN(plane_intersection(ray, call.plane))

TriangleNormal(vertices) ==
    cross(vsub(vertices[2], vertices[1]), vsub(vertices[3], vertices[1]))

\* C12: triangle_intersection returns a point only if the triangle is not
\* degenerate, the ray meets the triangle's plane at a parameter in [0, 1]
\* and the hit point passes is_point_inside_triangle; it returns nothing
\* for a degenerate triangle and for a plane hit outside [0, 1], as for the
\* ray from (0, 0, -2) towards (0, 0, -1) and the test triangle in z = 0.
C12_TriangleIntersection ==
    call.op = "triangle_intersection" =>
        LET normal == TriangleNormal(call.vertices)
            plane == from_normal_and_point(normal, call.vertices[1])
        IN  /\ call.ret # None =>
                   /\ ~IsZeroVec(normal)
                   /\ plane # None
                   /\ InUnit(plane_intersection(ray, plane[1]))
                   /\ call.ret = Some(get_point(ray, plane_intersection(ray, plane[1])))
                   /\ is_point_inside_triangle(call.ret[1], call.vertices)
            /\ IsZeroVec(normal) => call.ret = None
            /\ (/\ plane # None
                /\ \/ FLt(plane_intersection(ray, plane[1]), PZero)
                   \/ FGt(plane_intersection(ray, plane[1]), F(1))) => call.ret = None
            /\ (ray = TestRay /\ call.vertices = TestTriangle) => call.ret = None

C12_Witness ==
    /\ call.op = "triangle_intersection"
    /\ call.vertices = TestTriangle
    /\ call.ret # None
    /\ OnPlane(call.ret[1], Plane(Vec3(PZero, PZero, F(1)), PZero))

\* C17: for a ray whose direction is not zero, project_point(p) returns the
\* parameter t at which p - get_point(t) is orthogonal to the direction (the
\* dot product is zero up to the rounding of f32).
C17_ProjectPointOrthogonal ==
    (call.op = "project_point" /\ ~IsZeroVec(ray.dir)) =>
        AlmostZero(dot(vsub(call.point, get_point(ray, call.ret)), ray.dir))

C17_Witness ==
    /\ call.op = "project_point"
    /\ ~IsZeroVec(ray.dir)
    /\ ~FEq(sqr_len(ray.dir), F(1))
    /\ ~IsZero(call.ret)
    /\ ~IsZeroVec(vsub(call.point, get_point(ray, call.ret)))

(***************************************************************************)
(* Claims about the cylinder and capsule queries (SpecCylinder)            *)
(***************************************************************************)
\* the Capped cylinder and the ray of the worked example
ExampleCapped ==
    /\ call.op = "cylinder_intersection"
    /\ call.kind = "Capped"
    /\ call.pa = Vec3(PZero, PZero, PZero)
    /\ call.pb = Vec3(PZero, F(2), PZero)
    /\ call.r = F(1)
    /\ ray = from_two_points(Vec3(PZero, F(-1), PZero), Vec3(PZero, F(3), PZero))[1]

\* C13: the Capped cylinder pa = (0,0,0), pb = (0,2,0), r = 1 and the ray
\* from (0,-1,0) to (0,3,0), parallel to the axis: the result is the
\* interval from t = 0.25 (the cap at y = 0) to t = 0.75 (the cap at y = 2).
C13_CappedParallelRay ==
    ExampleCapped => call.ret = Some(IntersectionResult(Fin(1, 4), Fin(3, 4)))

C13_Witness ==
    /\ ExampleCapped
    /\ call.ret \notin {None, Panic}
    /\ get_point(ray, call.ret[1].min) = Vec3(PZero, PZero, PZero)
    /\ get_point(ray, call.ret[1].max) = Vec3(PZero, F(2), PZero)

\* C14: with pa == pb, capsule_intersection returns exactly what
\* sphere_intersection_points returns for the sphere of the same radius
\* centred at pa; the lateral part taken around the fallback axis adds
\* nothing.
C14_CapsuleDegradesToSphere ==
    (call.op = "capsule_intersection" /\ call.pa = call.pb) =>
        call.ret = sphere_intersection_points(ray, call.pa, call.r, call.ties[1])

\* a degenerate capsule that is hit, by a ray that is not parallel to the
\* fallback axis and whose lateral part around that axis is present
C14_Witness ==
    /\ call.op = "capsule_intersection"
    /\ call.pa = call.pb
    /\ call.ret # None
    /\ call.ret[1][1] # call.ret[1][2]
    /\ cylinder_intersection(ray, call.pa, call.pb, call.r, "Finite", NoTies) # None
    /\ ~IsZero(ray.dir.x)

\* C15: no intersection routine aborts the process: whatever the input
\* (coincident axis points, degenerate triangles, zero direction
\* components), the call returns a value or nothing; in particular the
\* unwrap of the cap plane in the Capped branch never meets a degenerate
\* normal.
C15_NoAbort ==
    call.op \in {"cylinder_intersection", "capsule_intersection"} => call.ret # Panic

\* The same, for cylinders whose axis vector has a length that f32 holds.
NoAbortUnlessAxisOverflows ==
    (call.op = "cylinder_intersection" /\ IsFinite(len(vsub(call.pb, call.pa))))
        => call.ret # Panic

\* the quadratic a t^2 + b t + c = 0 has no real root: its discriminant is
\* negative, or a and b are zero and c is not
NoRealRoots(q) ==
    \/ FLt(FSub(FMul(q[2], q[2]), FMul(FMul(F(4), q[1]), q[3])), PZero)
    \/ IsZero(q[1]) /\ IsZero(q[2]) /\ IsFinite(q[3]) /\ ~IsZero(q[3])

\* the quadratic of the lateral surface of the last query
LateralQuadratic == lateral_quadratic(ray, call.pa, axis(call.pa, call.pb), call.r)

\* C20: whatever the kind, cylinder_intersection returns nothing when the
\* quadratic of the lateral surface has no real roots, even when the ray
\* crosses an end disk of a Capped cylinder.
C20_NoRootsNoIntersection ==
    (call.op = "cylinder_intersection" /\ NoRealRoots(LateralQuadratic)) => call.ret = None

\* The same for the quadratics with a negative discriminant: every kind
\* returns nothing and the caps of a Capped cylinder are not consulted.
NegativeDiscriminantNoIntersection ==
    call.op = "cylinder_intersection" =>
        LET q == LateralQuadratic
            discriminant == FSub(FMul(q[2], q[2]), FMul(FMul(F(4), q[1]), q[3]))
        IN  FLt(discriminant, PZero) => call.ret = None

\* a Capped cylinder missed by a ray that crosses the plane of the cap at pa
MissedAcrossCapPlane ==
    /\ call.op = "cylinder_intersection"
    /\ call.kind = "Capped"
    /\ call.ret = None
    /\ call.pa # call.pb
    /\ LET va == axis(call.pa, call.pb)
           q == lateral_quadratic(ray, call.pa, va, call.r)
           cap_plane == from_normal_and_point(vneg(va), call.pa)
       IN  /\ FLt(FSub(FMul(q[2], q[2]), FMul(FMul(F(4), q[1]), q[3])), PZero)
           /\ cap_plane # None
           /\ FGt(plane_intersection(ray, cap_plane[1]), PZero)

\* a ray parallel to the axis and outside the radius: a = b = 0, c > 0, the
\* solver gives NaN roots and the Infinite and the Capped kind return the
\* start values of from_slice
ParallelOutsideGivesStartValues ==
    /\ call.op = "cylinder_intersection"
    /\ call.kind \in {"Infinite", "Capped"}
    /\ ~IsZero(sqr_len(ray.dir))
    /\ IsZero(LateralQuadratic[1]) /\ IsZero(LateralQuadratic[2])
    /\ FGt(LateralQuadratic[3], PZero)
    /\ call.ret = Some(IntersectionResult(FMaxV, FNeg(FMaxV)))

\* the ray of the worked example, parallel to the axis and inside the
\* radius (a = b = 0, c < 0), crosses both end disks: the Capped kind
\* returns the interval of the caps
ParallelInsideGivesCaps ==
    /\ ExampleCapped
    /\ NoRealRoots(LateralQuadratic)
    /\ FLt(LateralQuadratic[3], PZero)
    /\ call.ret = Some(IntersectionResult(Fin(1, 4), Fin(3, 4)))

(***************************************************************************)
(* Claims about the combination of the three slabs (SpecBox)               *)
(***************************************************************************)
\* the per-axis parameter intervals of the last box query
AxisIntervals ==
    <<slab(ray.origin.x, ray.dir.x, call.min.x, call.max.x),
      slab(ray.origin.y, ray.dir.y, call.min.y, call.max.y),
      slab(ray.origin.z, ray.dir.z, call.min.z, call.max.z)>>

\* no axis starts after another axis has ended
PairwiseOverlap(t) == \A i \in 1..3, j \in 1..3 : i # j => ~FGt(t[i][1], t[j][2])

Numbers(S) == {e \in S : ~IsNaN(e)}

Largest(S) == IF Numbers(S) = {} THEN NaN ELSE CHOOSE m \in Numbers(S) : \A e \in S : ~FGt(e, m)

Smallest(S) == IF Numbers(S) = {} THEN NaN ELSE CHOOSE m \in Numbers(S) : \A e \in S : ~FLt(e, m)

LargestMin(t) == Largest({t[i][1] : i \in 1..3})

SmallestMax(t) == Smallest({t[i][2] : i \in 1..3})

\* the running interval after the three axes: an axis replaces a bound only
\* when it compares beyond it
RunningMin(t) ==
    LET m == IF FGt(t[2][1], t[1][1]) THEN t[2][1] ELSE t[1][1]
    IN  IF FGt(t[3][1], m) THEN t[3][1] ELSE m

RunningMax(t) ==
    LET m == IF FLt(t[2][2], t[1][2]) THEN t[2][2] ELSE t[1][2]
    IN  IF FLt(t[3][2], m) THEN t[3][2] ELSE m

\* C18: box_intersection returns a result iff the three per-axis intervals
\* pairwise pass the overlap checks and the running interval ends with
\* tmin < 1 and tmax > 0; the result is then the interval from the largest
\* per-axis minimum to the smallest per-axis maximum.
C18_BoxIffOverlap ==
    call.op = "box_intersection" =>
        LET t == AxisIntervals
        IN  /\ call.ret # None <=>
                   /\ PairwiseOverlap(t)
                   /\ FLt(RunningMin(t), F(1))
                   /\ FGt(RunningMax(t), PZero)
            /\ call.ret # None =>
                   /\ FEq(call.ret[1].min, LargestMin(t))
                   /\ FEq(call.ret[1].max, SmallestMax(t))

\* a hit whose bounds come from two different axes, neither the first
C18_Witness ==
    /\ call.op = "box_intersection"
    /\ call.ret # None
    /\ LET t == AxisIntervals
       IN  /\ FGt(call.ret[1].min, t[1][1])
           /\ FLt(call.ret[1].max, t[1][2])
           /\ FLt(call.ret[1].min, call.ret[1].max)

\* what the overlap checks and the final test give for three intervals
Combined(t) ==
    IF PairwiseOverlap(t) /\ FLt(RunningMin(t), F(1)) /\ FGt(RunningMax(t), PZero)
    THEN Some(IntersectionResult(RunningMin(t), RunningMax(t)))
    ELSE None

\* the coordinates of a vector as a tuple
Coordinates(v) == <<v.x, v.y, v.z>>

ZeroOnAxis(i) == IsZero(Coordinates(ray.dir)[i])

StrictlyOutsideSlab(i) ==
    \/ FLt(Coordinates(ray.origin)[i], Coordinates(call.min)[i])
    \/ FGt(Coordinates(ray.origin)[i], Coordinates(call.max)[i])

StrictlyInsideSlab(i) ==
    /\ FGt(Coordinates(ray.origin)[i], Coordinates(call.min)[i])
    /\ FLt(Coordinates(ray.origin)[i], Coordinates(call.max)[i])

ZeroComponentTolerated(i) ==
    /\ StrictlyOutsideSlab(i) => call.ret = None
    /\ StrictlyInsideSlab(i) =>
           call.ret = Combined([AxisIntervals EXCEPT ![i] = <<NInf, PInf>>])

\* C19: when the direction is zero on an axis, that axis acts as an
\* unbounded interval: the query returns nothing if the origin is strictly
\* outside the slab of the axis, and what the other two axes alone decide if
\* the origin is strictly inside it.
C19_ZeroComponentTolerated ==
    (call.op = "box_intersection" /\ WellFormedBox(call.min, call.max)) =>
        \A i \in 1..3 : ZeroOnAxis(i) => ZeroComponentTolerated(i)

\* The same for the axes whose zero component is +0.0.
PositiveZeroComponentTolerated ==
    (call.op = "box_intersection" /\ WellFormedBox(call.min, call.max)) =>
        \A i \in 1..3 : Coordinates(ray.dir)[i] = PZero => ZeroComponentTolerated(i)

\* a hit decided by the other axes, with a +0.0 component strictly inside
PositiveZeroInsideHit ==
    /\ call.op = "box_intersection"
    /\ WellFormedBox(call.min, call.max)
    /\ call.ret # None
    /\ \E i \in 1..3 : Coordinates(ray.dir)[i] = PZero /\ StrictlyInsideSlab(i)
    /\ \E i \in 1..3 : ~ZeroOnAxis(i)

(***************************************************************************)
(* Claims about the three kinds of cylinder (SpecCylinder)                 *)
(***************************************************************************)
\* the axis, the solver's answer and the raw root interval of the last query
CallAxis == axis(call.pa, call.pb)

CallRoots == solve_lateral(lateral_quadratic(ray, call.pa, CallAxis, call.r))

RawInterval == from_slice(CallRoots[1], call.ties)

\* the parameter at which the ray meets the plane of the disk
CapParameter(center, normal) ==
    plane_intersection(ray, from_normal_and_point(normal, center)[1])

\* the disk at center is hit at t: in front of the origin and within the radius
HitsDisk(center, t) ==
    /\ FGt(t, PZero)
    /\ FLe(sqr_distance(center, get_point(ray, t)), FMul(call.r, call.r))

\* the parameters of the caps that are hit
CapHits ==
    {t \in {CapParameter(call.pa, vneg(CallAxis))} : HitsDisk(call.pa, t)}
        \cup {t \in {CapParameter(call.pb, CallAxis)} : HitsDisk(call.pb, t)}

CappedWithRoots ==
    /\ call.op = "cylinder_intersection"
    /\ call.kind = "Capped"
    /\ CallRoots # None
    /\ from_normal_and_point(CallAxis, call.pb) # None

\* C21: the Capped kind starts from the raw root interval and merges the
\* plane parameter t of each end disk (centre pa with normal -va, centre pb
\* with normal va) iff t > 0 and get_point(t) is within r of the centre: the
\* result is the raw interval widened to the caps that are hit, and a cap
\* with t <= 0 or a point outside the radius leaves it as it is.
C21_CappedMergesHitCaps ==
    CappedWithRoots =>
        /\ call.ret \notin {None, Panic}
        /\ FEq(call.ret[1].min, Smallest({RawInterval.min} \cup CapHits))
        /\ FEq(call.ret[1].max, Largest({RawInterval.max} \cup CapHits))

\* one cap is hit and widens the raw interval, the other is behind the origin
C21_Witness ==
    /\ CappedWithRoots
    /\ call.ret # Some(RawInterval)
    /\ Cardinality(CapHits) = 1
    /\ ~FGt(CapParameter(call.pa, vneg(CallAxis)), PZero)

\* the point of the ray at t lies between the planes through pa and pb
BetweenAxisPlanes(t) ==
    /\ FGe(dot(vsub(get_point(ray, t), call.pa), CallAxis), PZero)
    /\ FGe(dot(vsub(call.pb, get_point(ray, t)), CallAxis), PZero)

SurvivingRoots == {t \in {CallRoots[1][1], CallRoots[1][2]} : BetweenAxisPlanes(t)}

FiniteWithRoots ==
    /\ call.op = "cylinder_intersection"
    /\ call.kind = "Finite"
    /\ CallRoots # None

\* C22: the Finite kind keeps the lateral roots whose points p satisfy
\* (p - pa).va >= 0 and (pb - p).va >= 0: the result is absent when no root
\* survives, and else runs from the smallest to the largest surviving root;
\* the parameter of a cap never enters it.
C22_FiniteKeepsRootsBetweenPlanes ==
    FiniteWithRoots =>
        /\ call.ret = None <=> SurvivingRoots = {}
        /\ call.ret # None =>
               /\ call.ret[1].min \in SurvivingRoots
               /\ call.ret[1].max \in SurvivingRoots
               /\ FEq(call.ret[1].min, Smallest(SurvivingRoots))
               /\ FEq(call.ret[1].max, Largest(SurvivingRoots))

\* one root survives, the other lies beyond the plane through pb, and a cap
\* is hit at a parameter that is not in the result
C22_Witness ==
    /\ FiniteWithRoots
    /\ Cardinality(SurvivingRoots) = 1
    /\ \E t \in {CallRoots[1][1], CallRoots[1][2]} :
           /\ FGe(dot(vsub(get_point(ray, t), call.pa), CallAxis), PZero)
           /\ FLt(dot(vsub(call.pb, get_point(ray, t)), CallAxis), PZero)
    /\ from_normal_and_point(CallAxis, call.pb) # None
    /\ CapHits # {}
    /\ CapHits \cap {call.ret[1].min, call.ret[1].max} = {}

\* the part of v perpendicular to the unit vector va
Perp(v, va) == vsub(v, scale(va, dot(v, va)))

\* the quadratic of the lateral surface: A = |v_perp|^2,
\* B = 2 v_perp.dp_perp, C = |dp_perp|^2 - r^2
QuadraticA == sqr_len(Perp(ray.dir, CallAxis))

QuadraticB ==
    FMul(F(2), dot(Perp(ray.dir, CallAxis), Perp(vsub(ray.origin, call.pa), CallAxis)))

QuadraticC == FSub(sqr_len(Perp(vsub(ray.origin, call.pa), CallAxis)), FMul(call.r, call.r))

QuadraticRoots == solve_quadratic(QuadraticA, QuadraticB, QuadraticC)

InfiniteWithRoots ==
    /\ call.op = "cylinder_intersection"
    /\ call.kind = "Infinite"
    /\ QuadraticRoots # None

\* the same query with both axis points moved along the axis by k
ShiftedAlongAxis(k) ==
    cylinder_intersection(ray, vadd(call.pa, scale(CallAxis, k)),
                          vadd(call.pb, scale(CallAxis, k)), call.r, call.kind, call.ties)

AlmostSameInterval(p, q) ==
    IF p = None \/ q = None THEN p = q
    ELSE AlmostEq(p[1].min, q[1].min) /\ AlmostEq(p[1].max, q[1].max)

RootInterval ==
    /\ call.ret # None
    /\ AlmostEq(call.ret[1].min, Smallest({QuadraticRoots[1][1], QuadraticRoots[1][2]}))
    /\ AlmostEq(call.ret[1].max, Largest({QuadraticRoots[1][1], QuadraticRoots[1][2]}))

\* C23: the Infinite kind returns exactly the interval from the smallest to
\* the largest root of the lateral quadratic, without clipping and without
\* the caps, and the result is the same (up to the rounding of f32)
\* wherever pa and pb lie on the axis line.
C23_InfiniteIsRootInterval ==
    InfiniteWithRoots =>
        /\ RootInterval
        /\ \A k \in {F(-2), F(3)} : AlmostSameInterval(ShiftedAlongAxis(k), call.ret)

QuadraticDiscriminant ==
    FSub(FMul(QuadraticB, QuadraticB), FMul(FMul(F(4), QuadraticA), QuadraticC))

\* the discriminant is zero up to the rounding of its two terms
NearTangent ==
    FLe(FAbs(QuadraticDiscriminant),
        FMul(Tolerance, FAdd(F(1), FMul(QuadraticB, QuadraticB))))

\* The same for the rays that are not parallel to the axis and not tangent
\* to the surface (at a tangent ray the sign of the rounded discriminant is
\* decided by rounding).
InfiniteIsRootIntervalUnlessParallel ==
    (InfiniteWithRoots /\ ~IsZero(QuadraticA) /\ ~NearTangent) =>
        /\ RootInterval
        /\ \A k \in {F(-2), F(3)} : AlmostSameInterval(ShiftedAlongAxis(k), call.ret)

\* a root interval whose two points lie outside the axis planes
InfiniteUnclipped ==
    /\ InfiniteWithRoots
    /\ ~IsZero(QuadraticA)
    /\ call.pa # call.pb
    /\ FLt(call.ret[1].min, call.ret[1].max)
    /\ ~BetweenAxisPlanes(call.ret[1].min)
    /\ ~BetweenAxisPlanes(call.ret[1].max)

(***************************************************************************)
(* Claims about the capsule (SpecCylinder)                                 *)
(***************************************************************************)
\* the three parts of the capsule of the last query, in the order of the code
CapsuleParts ==
    <<cylinder_intersection(ray, call.pa, call.pb, call.r, "Finite", NoTies),
      sphere_intersection(ray, call.pa, call.r, call.ties[1]),
      sphere_intersection(ray, call.pb, call.r, call.ties[2])>>

\* the smallest lower and the largest upper bound of the present entries
BoundsMin(results) == Smallest({results[i][1].min : i \in PresentIdx(results)})

BoundsMax(results) == Largest({results[i][1].max : i \in PresentIdx(results)})

\* C24: capsule_intersection is try_eval_points of from_set of the Finite
\* cylinder between pa and pb, the sphere at pa and the sphere at pb, in
\* this order; it returns nothing iff the three parts are absent or both
\* bounds of the interval from_set gives for them are outside [0, 1]; that
\* interval bounds the parts when each present part has min <= max.
C24_CapsuleIsUnionOfParts ==
    call.op = "capsule_intersection" =>
        LET parts == CapsuleParts
            bound == from_set(parts)
        IN  /\ call.ret = try_eval_points(ray, bound)
            /\ bound = None <=> PresentIdx(parts) = {}
            /\ call.ret = None <=>
                   \/ PresentIdx(parts) = {}
                   \/ ~InUnit(bound[1].min) /\ ~InUnit(bound[1].max)
            /\ (bound # None /\ AllPresentWellFormed(parts)) =>
                   /\ FEq(bound[1].min, BoundsMin(parts))
                   /\ FEq(bound[1].max, BoundsMax(parts))

\* a capsule hit whose two points come from different parts
C24_Witness ==
    /\ call.op = "capsule_intersection"
    /\ call.ret # None
    /\ call.pa # call.pb
    /\ PresentIdx(CapsuleParts) = {1, 3}
    /\ call.ret[1][1] # call.ret[1][2]

(***************************************************************************)
(* Further claims about the cylinder (SpecCylinder)                        *)
(***************************************************************************)
UnitY == Vec3(PZero, F(1), PZero)

CoincidentAxisPoints == call.op = "cylinder_intersection" /\ call.pa = call.pb

\* C25: with pa == pb cylinder_intersection does not fail: it takes the
\* fixed direction (0, 1, 0) for the axis and returns the result for that
\* axis; for the Infinite kind this is the cylinder through pa and
\* pa + (0, 1, 0).
C25_CoincidentPointsUseUnitY ==
    CoincidentAxisPoints =>
        /\ call.ret # Panic
        /\ call.ret = cylinder_along(ray, call.pa, call.pb, UnitY, call.r, call.kind,
                                     call.ties)
        /\ call.kind = "Infinite" =>
               call.ret = cylinder_intersection(ray, call.pa, vadd(call.pa, UnitY),
                                                call.r, "Infinite", call.ties)

\* a hit of the degenerate cylinder that another axis would not give
C25_Witness ==
    /\ CoincidentAxisPoints
    /\ call.ret # None
    /\ FLt(call.ret[1].min, call.ret[1].max)
    /\ call.ret # cylinder_along(ray, call.pa, call.pb, Vec3(F(1), PZero, PZero),
                                 call.r, call.kind, call.ties)

(***************************************************************************)
(* Further claims about the plane (SpecPlane)                              *)
(***************************************************************************)
NotParallel(r, plane) ==
    LET v == dot(r.dir, plane.normal) IN IsFinite(v) /\ ~IsZero(v)

\* the parameters at which the half-line from the origin along dir is sampled
ForwardParameters == {PZero, Fin(1, 4), Half, F(1), F(2), F(3), F(4), F(6), F(8)}

\* C26: for a ray whose direction is not parallel to the plane,
\* plane_intersection returns the t with
\* dot(origin, n) + d + t * dot(dir, n) = 0 (up to the rounding of f32), so
\* that origin + dir * t is on the plane; when t is negative (by more than
\* rounding) no point of the ray ahead of the origin is on the plane.
C26_PlaneParameterSolvesEquation ==
    (call.op = "plane_intersection" /\ NotParallel(ray, call.plane)) =>
        LET n == call.plane.normal
            t == call.ret
        IN  /\ IsFinite(t)
            /\ AlmostZero(FAdd(FAdd(dot(ray.origin, n), call.plane.d),
                                FMul(t, dot(ray.dir, n))))
            /\ OnPlane(get_point(ray, t), call.plane)
            /\ FLt(t, FNeg(Tolerance)) =>
                   \A s \in ForwardParameters : ~OnPlane(get_point(ray, s), call.plane)

\* a plane behind the origin of a ray that is neither parallel nor
\* perpendicular to it
C26_Witness ==
    /\ call.op = "plane_intersection"
    /\ NotParallel(ray, call.plane)
    /\ FLt(call.ret, FNeg(Tolerance))
    /\ ~IsZero(call.plane.d)
    /\ Cardinality({c \in {"x", "y", "z"} : ~IsZero(ray.dir[c])}) = 3

\* a plane ahead of the origin, met at one of the sampled parameters
PlaneAheadMet ==
    /\ call.op = "plane_intersection"
    /\ NotParallel(ray, call.plane)
    /\ FGt(call.ret, PZero)
    /\ \E s \in ForwardParameters :
           FEq(s, call.ret) /\ OnPlane(get_point(ray, s), call.plane)

(***************************************************************************)
(* Infinite against Capped (SpecCylinder)                                  *)
(***************************************************************************)
CallInfinite == cylinder_intersection(ray, call.pa, call.pb, call.r, "Infinite", call.ties)

CallCapped == cylinder_intersection(ray, call.pa, call.pb, call.r, "Capped", call.ties)

Contains(outer, inner) == FLe(outer.min, inner.min) /\ FGe(outer.max, inner.max)

\* C27: for the same ray, axis points and radius, whenever the Infinite kind
\* returns an interval the Capped kind returns an interval too, with
\* Capped.min <= Infinite.min and Capped.max >= Infinite.max.
C27_CappedContainsInfinite ==
    (call.op = "cylinder_intersection" /\ call.kind = "Capped") =>
        LET inf == CallInfinite
        IN  inf # None =>
                /\ call.ret # Panic
                /\ call.ret # None
                /\ Contains(call.ret[1], inf[1])

\* the same containment for all axes on which the Capped kind does not abort
CappedContainsInfiniteUnlessAbort ==
    (call.op = "cylinder_intersection" /\ call.kind = "Capped" /\ call.ret # Panic) =>
        LET inf == CallInfinite
        IN  inf # None => call.ret # None /\ Contains(call.ret[1], inf[1])

\* the Capped kind keeps lateral roots that lie outside the two end planes
CappedKeepsRootsBeyondCaps ==
    /\ call.op = "cylinder_intersection"
    /\ call.kind = "Capped"
    /\ call.ret # Panic
    /\ call.ret # None
    /\ call.ret = CallInfinite
    /\ FLt(call.ret[1].min, call.ret[1].max)
    /\ ~BetweenAxisPlanes(call.ret[1].min)
    /\ ~BetweenAxisPlanes(call.ret[1].max)

\* the Infinite kind answers while the Capped kind aborts
InfiniteAnswersCappedAborts ==
    /\ call.op = "cylinder_intersection"
    /\ call.kind = "Capped"
    /\ call.ret = Panic
    /\ CallInfinite # None

(***************************************************************************)
(* Order of the entries of from_set (SpecInterval)                         *)
(***************************************************************************)
Bijections(S) == {p \in [S -> S] : \A i, j \in S : p[i] = p[j] => i = j}

\* every list holding the entries of s in some order
Reorderings(s) == {[i \in DOMAIN s |-> s[p[i]]] : p \in Bijections(DOMAIN s)}

\* C28: when every present entry has min <= max, from_set gives the same
\* result for every permutation of the same list of optional intervals.
C28_FromSetOrderIndependent ==
    (call.op = "from_set" /\ AllPresentWellFormed(call.results)) =>
        \A t \in Reorderings(call.results) : from_set(t) = res

\* three entries, two of them present, different and overlapping, in an
\* order that is not the only one
C28_Witness ==
    /\ call.op = "from_set"
    /\ AllPresentWellFormed(call.results)
    /\ Len(call.results) = 3
    /\ Cardinality(PresentIdx(call.results)) = 2
    /\ res # None
    /\ \A i \in PresentIdx(call.results) : call.results[i] # res
    /\ \E t \in Reorderings(call.results) : t # call.results /\ Head(t) = None

\* with an entry whose min > max the result depends on the order
OrderMattersWithMalformedEntry ==
    /\ call.op = "from_set"
    /\ ~AllPresentWellFormed(call.results)
    /\ \E t \in Reorderings(call.results) : from_set(t) # res

\* so it does with the sentinel of a list without roots
OrderMattersWithSentinel ==
    /\ call.op = "from_set"
    /\ \E i \in PresentIdx(call.results) : call.results[i] = Some(from_slice(<<>>, <<>>))
    /\ \A i \in PresentIdx(call.results) :
           call.results[i] # Some(from_slice(<<>>, <<>>)) => WellFormed(call.results[i][1])
    /\ \E t \in Reorderings(call.results) : from_set(t) # res

(***************************************************************************)
(* Further claims about the box (SpecBox)                                  *)
(***************************************************************************)
FiniteNonZero(a) == IsFinite(a) /\ ~IsZero(a)

FiniteNonZeroDir(r) ==
    FiniteNonZero(r.dir.x) /\ FiniteNonZero(r.dir.y) /\ FiniteNonZero(r.dir.z)

\* C29: for a box with min <= max on every axis and a ray whose direction
\* components are all finite and non-zero, every interval returned by
\* box_intersection has min <= max.
C29_BoxIntervalWellFormed ==
    (/\ call.op = "box_intersection"
     /\ WellFormedBox(call.min, call.max)
     /\ FiniteNonZeroDir(ray)
     /\ call.ret # None) => WellFormed(call.ret[1])

\* a thin box crossed within the segment by a ray running against the x
\* axis: both bounds strictly inside (0, 1)
C29_Witness ==
    /\ call.op = "box_intersection"
    /\ WellFormedBox(call.min, call.max)
    /\ FiniteNonZeroDir(ray)
    /\ FLt(ray.dir.x, PZero)
    /\ call.ret # None
    /\ FLt(PZero, call.ret[1].min)
    /\ FLt(call.ret[1].min, call.ret[1].max)
    /\ FLt(call.ret[1].max, F(1))

CallBoxInterval == box_intersection(ray, call.min, call.max)

\* the segment from get_point(0) to get_point(1) lies strictly between the
\* two parameters of the interval
SegmentWithin(r) == FLt(r.min, PZero) /\ FGt(r.max, F(1))

\* C30 (as stated): whenever box_intersection returns a present interval,
\* box_intersection_points returns points, also for a segment wholly inside
\* the box (interval min < 0 and max > 1).
C30_PresentIntervalGivesPoints ==
    (call.op = "box_intersection_points" /\ CallBoxInterval # None) => call.ret # None

\* C30 (amended): box_intersection_points returns points exactly when
\* box_intersection returns a present interval with at least one bound in
\* [0, 1]; for a segment wholly inside the box (interval min < 0 and
\* max > 1) box_intersection returns the interval and
\* box_intersection_points returns nothing.
C30_PointsIffBoundInSegment ==
    call.op = "box_intersection_points" =>
        LET r == CallBoxInterval
        IN  /\ call.ret = try_eval_points(ray, r)
            /\ call.ret # None <=> (r # None /\ (InUnit(r[1].min) \/ InUnit(r[1].max)))
            /\ (r # None /\ SegmentWithin(r[1])) => call.ret = None

\* a segment wholly inside a well-formed box, none of its direction
\* components zero
C30_Witness ==
    /\ call.op = "box_intersection_points"
    /\ WellFormedBox(call.min, call.max)
    /\ FiniteNonZeroDir(ray)
    /\ CallBoxInterval # None
    /\ SegmentWithin(CallBoxInterval[1])
    /\ call.ret = None

\* a segment that leaves the box: one bound in [0, 1], the same point twice
SegmentLeavingBoxReported ==
    /\ call.op = "box_intersection_points"
    /\ CallBoxInterval # None
    /\ FLt(CallBoxInterval[1].min, PZero)
    /\ call.ret # None
    /\ call.ret[1][1] = call.ret[1][2]

====
